---- MODULE Spec2Model ----
(***************************************************************************)
(* A model of jsh (src/shell.c): the prompt loop of main, the line         *)
(* tokenizer (makeProcesses, makeProcess, makeArgument, endOfArg) and the   *)
(* pipeline executor (execute, makePipes, runChild, closeUnneededPipes,     *)
(* waitOnProcesses).                                                        *)
(*                                                                         *)
(* Characters are one-character strings.  A C string is the sequence of    *)
(* its characters without the terminating NUL.                             *)
(***************************************************************************)
EXTENDS Integers, Sequences, FiniteSets, TLC

(***************************************************************************)
(* Sizes.  The source's sizes (2048, 1000, 500, 100) are scaled down so    *)
(* that every ceiling can be reached inside one buffer, as it can in the   *)
(* source (a 2047-character line holds a 100-character word, 500 words and *)
(* 1001 stages).                                                           *)
(***************************************************************************)
BUFFER_SIZE == 8

MAX_PROCESSES == 3

MAX_WORDS == 3

MAX_WORD_LENGTH == 5

\* Capacity of a pipe, in units of data (the kernel's pipe buffer).
PipeCap == 1

\* How many of the unwritten bytes of the buffer take every value.
MaxGarbage == 1

\* How many system calls fail in one session.
MaxFaults == 1

(***************************************************************************)
(* Characters.                                                             *)
(***************************************************************************)
NUL == "NUL"

\* The byte 0xFF: as a (signed) char it compares equal to EOF (-1).
EOFCH == "0xFF"

NL == "\n"

TAB == "\t"

\* The characters of the lines the tokenizer is explored on, the newline
\* apart: a letter, the space and the pipe symbol.
TextChar == {"a", " ", "|"}

\* The values a byte of the buffer may hold.
Byte == TextChar \cup {TAB, NL, NUL, EOFCH}

VARIABLES
    stdinS,         \* the characters of standard input not read yet
    input,          \* main: char input[BUFFER_SIZE]
    currProcesses,  \* main: Prcs currProcesses
    pc,             \* where the shell process is
    pipes,          \* execute: how many pipes makePipes created
    pfd,            \* the pipe ends open in the shell process
    idx,            \* the index of the loop of execute / waitOnProcesses
    kids,           \* the forked children, by stage index
    chan,           \* the units of data buffered in each pipe
    status,         \* waitOnProcesses: int status
    out,            \* the statuses printed by "jsh status: %d"
    nexec,          \* how many times execute was called
    nfork,          \* how many children were forked in the session
    ret,            \* the exit code of the shell process, -1 while it has none
    faults          \* the system calls that failed, in order

vars == <<stdinS, input, currProcesses, pc, pipes, pfd, idx, kids, chan, status,
          out, nexec, nfork, ret, faults>>

execVars == <<pipes, pfd, idx, kids, chan, status, out, nexec, nfork, faults>>

(***************************************************************************)
(* The tokenizer.  The buffer is a function on 0 .. BUFFER_SIZE-1.          *)
(***************************************************************************)

\* endOfArg without its test for the pipe symbol.
endOfArgNoPipe(buf, ind) ==
    \/ ind >= BUFFER_SIZE
    \/ buf[ind] = NL
    \/ buf[ind] = EOFCH

\* endOfArg: the index is past the buffer, or at a newline, EOF or a pipe.
endOfArg(buf, ind) ==
    \/ ind >= BUFFER_SIZE
    \/ buf[ind] = NL
    \/ buf[ind] = EOFCH
    \/ buf[ind] = "|"

\* The string a char array holds: its characters before the first NUL.
RECURSIVE CStr(_)
CStr(raw) ==
    IF raw = <<>> \/ Head(raw) = NUL THEN <<>>
    ELSE <<Head(raw)>> \o CStr(Tail(raw))

\* The loop of makeArgument: the index after the argument that starts at ind.
RECURSIVE ArgEnd(_, _)
ArgEnd(buf, ind) ==
    IF ~endOfArg(buf, ind) /\ buf[ind] # " " THEN ArgEnd(buf, ind + 1) ELSE ind

\* makeArgument: the characters copied to arg, the index left in *ind, and
\* whether a store went past the MAX_WORD_LENGTH bytes of arg (the
\* terminator is stored at arg[argInd]).
makeArgument(buf, ind) ==
    LET e == ArgEnd(buf, ind)
        raw == [k \in 1 .. (e - ind) |-> buf[ind + k - 1]]
    IN  [arg |-> CStr(raw), ind |-> e, over |-> (e - ind) >= MAX_WORD_LENGTH]

\* The loop that skips leading spaces.
RECURSIVE SkipSpaces(_, _)
SkipSpaces(buf, ind) ==
    IF ~endOfArg(buf, ind) /\ buf[ind] = " " THEN SkipSpaces(buf, ind + 1) ELSE ind

\* The outer loop of makeProcess, from index ind with the words args read so
\* far; over: a store went past args[MAX_WORDS-1] or past a word's bytes.
RECURSIVE WordLoop(_, _, _, _)
WordLoop(buf, ind, args, over) ==
    IF endOfArg(buf, ind) THEN [args |-> args, ind |-> ind, over |-> over]
    ELSE LET j == SkipSpaces(buf, ind)
         IN  IF ~endOfArg(buf, j)
             THEN LET a == makeArgument(buf, j)
                  IN  WordLoop(buf, a.ind, Append(args, a.arg),
                               over \/ a.over \/ Len(args) >= MAX_WORDS)
             ELSE WordLoop(buf, j, args, over)

\* makeProcess: the words of the stage at ind (args[numWords] = NULL is stored
\* after them), and the index after the stage and the pipe that ends it.
makeProcess(buf, ind) ==
    LET w == WordLoop(buf, ind, <<>>, FALSE)
    IN  [args |-> w.args,
         ind  |-> IF w.ind < BUFFER_SIZE /\ buf[w.ind] = "|" THEN w.ind + 1 ELSE w.ind,
         over |-> w.over \/ Len(w.args) >= MAX_WORDS]

\* The loop of makeProcesses: stages are appended until one has no word.
RECURSIVE StageLoop(_, _, _, _)
StageLoop(buf, ind, procs, over) ==
    LET p == makeProcess(buf, ind)
    IN  IF p.args # <<>>
        THEN StageLoop(buf, p.ind, Append(procs, p.args),
                       over \/ p.over \/ Len(procs) >= MAX_PROCESSES)
        ELSE [args |-> procs, size |-> Len(procs), over |-> over \/ p.over]

\* makeProcesses: the Processes struct filled from the buffer; over is TRUE
\* when a store went past a fixed-size array (the behaviour is then undefined).
makeProcesses(buf) == StageLoop(buf, 0, <<>>, FALSE)

(***************************************************************************)
(* fgets: the buffer after reading chunk, a nonempty sequence of at most    *)
(* BUFFER_SIZE-1 characters; the bytes after the terminator are not         *)
(* written: tail gives the values they hold.                                *)
(***************************************************************************)
fgets(chunk, tail) ==
    [k \in 0 .. BUFFER_SIZE - 1 |->
        IF k < Len(chunk) THEN chunk[k + 1]
        ELSE IF k = Len(chunk) THEN NUL
        ELSE tail[k - Len(chunk)]]

\* Sequences over S of length exactly n.
SeqsOf(S, n) == [1 .. n -> S]

\* What one call of fgets can read: text up to and including a newline, or
\* text cut by the end of input or by the size of the buffer.
Chunks ==
    UNION {{t \o <<c>> : t \in SeqsOf(TextChar, n - 1), c \in TextChar \cup {NL}} :
           n \in 1 .. BUFFER_SIZE - 1}

\* The values of n bytes that were never written (char input[BUFFER_SIZE] is
\* not initialized): the first MaxGarbage of them are arbitrary, the others
\* all NUL or all newline.
Tails(n) ==
    IF n <= MaxGarbage THEN SeqsOf(Byte, n)
    ELSE {g \o [k \in 1 .. (n - MaxGarbage) |-> p] :
             g \in SeqsOf(Byte, MaxGarbage), p \in {NUL, NL}}

(***************************************************************************)
(* The tokenizer alone, over every buffer fgets can leave.                 *)
(***************************************************************************)
NoProcesses == [args |-> <<>>, size |-> 0, over |-> FALSE]

\* The executor's variables when no pipeline is being executed.
Idle ==
    /\ pipes = 0
    /\ pfd = {}
    /\ idx = 0
    /\ kids = <<>>
    /\ chan = <<>>
    /\ status = -1

InitTok ==
    /\ stdinS = <<>>
    /\ Idle
    /\ out = <<>>
    /\ nexec = 0
    /\ nfork = 0
    /\ ret = -1
    /\ faults = <<>>
    /\ \E ch \in Chunks : \E t \in Tails(BUFFER_SIZE - 1 - Len(ch)) :
          input = fgets(ch, t)
    /\ currProcesses = NoProcesses
    /\ pc = "read"

Tokenize ==
    /\ pc = "read"
    /\ currProcesses' = makeProcesses(input)
    /\ pc' = "parsed"
    /\ UNCHANGED <<stdinS, input, execVars, ret>>

NextTok == Tokenize

SpecTok == InitTok /\ [][NextTok]_vars

(***************************************************************************)
(* The session: main's loop and the executor.                              *)
(***************************************************************************)

\* The two ends of pipe k: pipes[k][0] reads, pipes[k][1] writes.
RD(k) == <<k, 0>>

\* The shell's own standard input or output, which is no pipe.
TTY == <<-1, -1>>

WR(k) == <<k, 1>>

\* The programs execvp finds, by name, and what each does once it runs:
\*   y  writes without end (yes);     c  copies its input to its output (cat);
\*   h  copies one unit, then exits (head);
\*   t  exits 0;   f  exits 1;   q  exits 127.
\* Any other name, the empty one included, is not found.
Program(name) ==
    CASE name = <<"y">> -> "yes"
      [] name = <<"c">> -> "cat"
      [] name = <<"h">> -> "head"
      [] name = <<"t">> -> "true"
      [] name = <<"f">> -> "false"
      [] name = <<"q">> -> "exit127"
      [] OTHER -> "none"

\* The code with which a program that only exits does so.
ExitCodeOf(prog) ==
    CASE prog = "true" -> 0
      [] prog = "false" -> 1
      [] prog = "exit127" -> 127
      [] OTHER -> 0

\* The status waitpid stores for a child that called exit(code).
Exited(code) == code * 256

\* The status waitpid stores for a child killed by SIGPIPE.
SIGPIPE == 13

WEXITSTATUS(st) == (st \div 256) % 256

\* The input of the sessions that are explored, line by line.
L(chars) == chars \o <<NL>>

Streams == {
    L(<<"y", "|", "c", "|", "h">>) \o L(<<"e", "x", "i", "t">>),
    L(<<"y", "|", "c", "|", "n">>),
    L(<<"c", "|", "n", "|", "c">>) \o L(<<"t", "|", "q">>),
    L(<<"f", "|", "t">>) \o L(<<"c", "|", "h">>) \o L(<<"e", "x", "i", "t">>),
    L(<<"t", "|", "n">>) \o L(<<"n">>) \o L(<<"q", "|", "f">>),
    L(<<"t", " ", "e", "x", "i", "t">>) \o L(<<"e", "x", "i", "t", " ", "t">>),
    L(<<"q">>) \o L(<<" ", "e", "x", "i", "t">>),
    L(<<"t", "|", "e", "x", "i", "t">>) \o L(<<"E", "x", "i", "t">>)
        \o L(<<"e", "x", "i", "t", "|", "t">>),
    L(<<"e", "x", "i", "t", "t">>) \o L(<<"e", "x", "i">>) \o <<"e", "x", "i", "t">>,
    L(<<>>) \o L(<<" ", " ">>) \o L(<<"|", "t">>) \o L(<<TAB>>),
    L(<<"h", " ", "a">>) \o <<" ", " ">>,
    L(<<"y", "|", "h">>) \o L(<<"t", "|", "t", "|", "t", "|", "t">>) \o L(<<"q">>)
}

\* What fgets reads from the stream s: its characters up to and including
\* the first newline, at most BUFFER_SIZE-1 of them.
RECURSIVE FgetsLen(_, _)
FgetsLen(s, n) ==
    IF n = Len(s) \/ n = BUFFER_SIZE - 1 THEN n
    ELSE IF s[n + 1] = NL THEN n + 1
    ELSE FgetsLen(s, n + 1)

\* The stages of a pipeline: 0 .. size-1.
Stages == 0 .. currProcesses.size - 1

\* The name of the program of stage k: args[k][0].
NameOf(k) == currProcesses.args[k + 1][1]

Live(k) == k \in DOMAIN kids /\ kids[k].st \in {"forked", "running"}

\* Child k holds the pipe end e open, on the descriptor pipe() gave or on
\* the standard stream dup2 put it on.
Holds(k, e) == Live(k) /\ (e \in kids[k].fds \/ kids[k].sin = e \/ kids[k].sout = e)

\* Some process holds the pipe end e open.
Open(e) == e \in pfd \/ \E k \in DOMAIN kids : Holds(k, e)

Init ==
    /\ stdinS \in Streams
    /\ input \in {[k \in 0 .. BUFFER_SIZE - 1 |-> c] : c \in {NUL, "a"}}
    /\ currProcesses = NoProcesses
    /\ pc = "prompt"
    /\ Idle
    /\ out = <<>>
    /\ nexec = 0
    /\ nfork = 0
    /\ ret = -1
    /\ faults = <<>>

\* The test of any stage for the word exit.
isExitAnyStage(p) ==
    \E k \in 1 .. p.size : p.args[k][1] = <<"e", "x", "i", "t">>

\* main, lines 82-83: the line is not empty and strcmp finds args[0][0]
\* equal to "exit".
isExit(p) == p.size # 0 /\ p.args[1][1] = <<"e", "x", "i", "t">>

\* main, lines 73-78: fgets returns NULL at the end of input, main returns 1.
ReadEof ==
    /\ pc = "prompt"
    /\ stdinS = <<>>
    /\ pc' = "eof"
    /\ ret' = 1
    /\ UNCHANGED <<stdinS, input, currProcesses, execVars>>

\* main, lines 73-88: fgets reads a line into the buffer, whose other bytes
\* keep what they held; makeProcesses tokenizes it; then main leaves its loop
\* (exit, and main returns 0 at its end), goes round it (no stage) or calls
\* execute.  Once a store has gone out of bounds the process may also crash.
ReadLine ==
    /\ pc = "prompt"
    /\ stdinS # <<>>
    /\ LET n == FgetsLen(stdinS, 0)
           buf == fgets(SubSeq(stdinS, 1, n), [k \in 1 .. BUFFER_SIZE - 1 - n |-> input[n + k]])
           p == makeProcesses(buf)
       IN  /\ stdinS' = SubSeq(stdinS, n + 1, Len(stdinS))
           /\ input' = buf
           /\ \E crash \in {FALSE, p.over} :
                 IF crash THEN pc' = "abort" /\ currProcesses' = p /\ ret' = ret
                 ELSE IF isExit(p)
                      THEN pc' = "exit" /\ currProcesses' = NoProcesses /\ ret' = 0
                 ELSE IF p.size # 0
                      THEN pc' = "execute" /\ currProcesses' = p /\ ret' = ret
                 ELSE pc' = "prompt" /\ currProcesses' = NoProcesses /\ ret' = ret
    /\ UNCHANGED execVars

\* makePipes(size), called by execute at line 107: size pipes are created and
\* both ends of each are open in the shell.
makePipes(size) ==
    /\ pipes' = size
    /\ pfd' = {RD(k) : k \in 0 .. size - 1} \cup {WR(k) : k \in 0 .. size - 1}
    /\ chan' = [k \in 0 .. size - 1 |-> 0]

\* execute, lines 104-109.
Execute ==
    /\ pc = "execute"
    /\ makePipes(currProcesses.size)
    /\ idx' = 0
    /\ nexec' = nexec + 1
    /\ pc' = "fork"
    /\ UNCHANGED <<stdinS, input, currProcesses, kids, status, out, nfork, ret, faults>>

\* A fork loop that spawns the stages from the last to the first.
ForkReverse ==
    /\ pc = "fork"
    /\ kids' = kids @@ ((currProcesses.size - 1 - idx) :>
                           [st |-> "forked", fds |-> pfd, sin |-> TTY,
                            sout |-> TTY, prog |-> "none", hold |-> FALSE,
                            ws |-> -1])
    /\ nfork' = nfork + 1
    /\ IF idx + 1 < currProcesses.size
       THEN idx' = idx + 1 /\ pc' = "fork"
       ELSE idx' = 0 /\ pc' = "close"
    /\ UNCHANGED <<stdinS, input, currProcesses, pipes, pfd, chan, status, out, nexec,
                   ret, faults>>

\* execute, lines 112-122, in the shell: fork gives the child a copy of the
\* shell's descriptors; after the last fork the shell enters waitOnProcesses.
Fork ==
    /\ pc = "fork"
    /\ kids' = kids @@ (idx :> [st |-> "forked", fds |-> pfd, sin |-> TTY,
                                sout |-> TTY, prog |-> "none", hold |-> FALSE,
                                ws |-> -1])
    /\ nfork' = nfork + 1
    /\ IF idx + 1 < currProcesses.size
       THEN idx' = idx + 1 /\ pc' = "fork"
       ELSE idx' = 0 /\ pc' = "close"
    /\ UNCHANGED <<stdinS, input, currProcesses, pipes, pfd, chan, status, out, nexec,
                   ret, faults>>

\* closeUnneededPipes(pipes, size, ind): the ends the child closes.
closeUnneededPipes(size, ind) ==
    {RD(k) : k \in {j \in 0 .. size - 2 : j # ind - 1}}
        \cup {WR(k) : k \in {j \in 0 .. size - 2 : j # ind}}

\* The standard input taken from the stage's own pipe, not the one before it.
StdinOfOwnPipe(ind) == IF ind # 0 THEN RD(ind) ELSE TTY

\* The standard input runChild gives stage ind (lines 147-152).
StdinOf(ind) == IF ind # 0 THEN RD(ind - 1) ELSE TTY

\* The standard output runChild gives stage ind (lines 155-160).
StdoutOf(size, ind) == IF ind # size - 1 THEN WR(ind) ELSE TTY

\* A terminated child: it holds no descriptor, st is the status waitpid gives.
Zombie(kid, st) == [kid EXCEPT !.st = "zombie", !.fds = {}, !.sin = TTY,
                               !.sout = TTY, !.hold = FALSE, !.ws = st]

\* The system calls of runChild in child ind that may fail: a close of
\* closeUnneededPipes when it closes something, a dup2 when one is called.
WiringFaults(size, ind) ==
    IF Len(faults) >= MaxFaults THEN {}
    ELSE {"close in child" : e \in closeUnneededPipes(size, ind)}
            \cup {"dup2 in child" : e \in {StdinOf(ind), StdoutOf(size, ind)} \ {TTY}}

\* runChild in child k, and lines 114-117 of execute: close the unneeded
\* ends, put the pipes on the standard streams (dup2 of a closed descriptor
\* fails), exec the program; when exec fails the child prints "Command not
\* found" and exits 127.  When a close or a dup2 fails the child prints a
\* diagnostic and calls exit(127) (lines 150, 158, 260, 264).
RunChild(k) ==
    /\ k \in DOMAIN kids
    /\ kids[k].st = "forked"
    /\ LET size == currProcesses.size
           kid == [kids[k] EXCEPT !.fds = @ \ closeUnneededPipes(size, k),
                                  !.sin = StdinOf(k),
                                  !.sout = StdoutOf(size, k)]
           prog == Program(NameOf(k))
           dupFails == \E e \in {kid.sin, kid.sout} : e # TTY /\ e \notin kid.fds
       IN  \E f \in {"none"} \cup WiringFaults(size, k) :
              /\ kids' = [kids EXCEPT ![k] =
                             IF f # "none" \/ dupFails \/ prog = "none"
                             THEN Zombie(kid, Exited(127))
                             ELSE [kid EXCEPT !.st = "running", !.prog = prog,
                                              !.hold = (prog = "yes")]]
              /\ faults' = IF f # "none" THEN Append(faults, f) ELSE faults
    /\ UNCHANGED <<stdinS, input, currProcesses, pc, pipes, pfd, idx, chan,
                   status, out, nexec, nfork, ret>>

\* A running cat or head reads its standard input: from the terminal it gets
\* data or the end of input; from a pipe it gets a buffered unit, or the end
\* of input when the pipe is empty and no write end of it is open, and
\* blocks otherwise.
ProgRead(k) ==
    /\ k \in DOMAIN kids
    /\ kids[k].st = "running"
    /\ kids[k].prog \in {"cat", "head"}
    /\ ~kids[k].hold
    /\ IF kids[k].sin = TTY
       THEN /\ \E eof \in BOOLEAN :
                  kids' = [kids EXCEPT ![k] =
                              IF eof THEN Zombie(@, Exited(0)) ELSE [@ EXCEPT !.hold = TRUE]]
            /\ UNCHANGED chan
       ELSE LET p == kids[k].sin[1]
            IN  IF chan[p] > 0
                THEN /\ chan' = [chan EXCEPT ![p] = @ - 1]
                     /\ kids' = [kids EXCEPT ![k].hold = TRUE]
                ELSE /\ ~Open(WR(p))
                     /\ kids' = [kids EXCEPT ![k] = Zombie(@, Exited(0))]
                     /\ UNCHANGED chan
    /\ UNCHANGED <<stdinS, input, currProcesses, pc, pipes, pfd, idx, status,
                   out, nexec, nfork, ret, faults>>

\* What a program is after it has written a unit: yes has the next one to
\* write, cat reads again, head exits.
AfterWrite(kid) ==
    CASE kid.prog = "yes" -> kid
      [] kid.prog = "head" -> Zombie(kid, Exited(0))
      [] OTHER -> [kid EXCEPT !.hold = FALSE]

\* A running program writes a unit to its standard output: the terminal
\* takes it; a pipe with no read end open kills the writer with SIGPIPE; a
\* pipe with room buffers it; a full pipe blocks the writer.
ProgWrite(k) ==
    /\ k \in DOMAIN kids
    /\ kids[k].st = "running"
    /\ kids[k].hold
    /\ IF kids[k].sout = TTY
       THEN /\ kids' = [kids EXCEPT ![k] = AfterWrite(@)]
            /\ UNCHANGED chan
       ELSE LET p == kids[k].sout[1]
            IN  IF ~Open(RD(p))
                THEN /\ kids' = [kids EXCEPT ![k] = Zombie(@, SIGPIPE)]
                     /\ UNCHANGED chan
                ELSE /\ chan[p] < PipeCap
                     /\ chan' = [chan EXCEPT ![p] = @ + 1]
                     /\ kids' = [kids EXCEPT ![k] = AfterWrite(@)]
    /\ UNCHANGED <<stdinS, input, currProcesses, pc, pipes, pfd, idx, status,
                   out, nexec, nfork, ret, faults>>

\* A running program that neither reads nor writes exits.
ProgExit(k) ==
    /\ k \in DOMAIN kids
    /\ kids[k].st = "running"
    /\ kids[k].prog \in {"true", "false", "exit127"}
    /\ kids' = [kids EXCEPT ![k] = Zombie(@, Exited(ExitCodeOf(@.prog)))]
    /\ UNCHANGED <<stdinS, input, currProcesses, pc, pipes, pfd, idx, chan,
                   status, out, nexec, nfork, ret, faults>>

\* The close of the read end alone.
ClosePipeReadEnd ==
    /\ pc = "close"
    /\ pfd' = pfd \ {RD(idx)}
    /\ pc' = "wait"
    /\ UNCHANGED <<stdinS, input, currProcesses, pipes, idx, kids, chan, status,
                   out, nexec, nfork, ret, faults>>

\* waitOnProcesses, lines 185-188: the shell closes both ends of pipe idx.
ClosePipe ==
    /\ pc = "close"
    /\ pfd' = pfd \ {RD(idx), WR(idx)}
    /\ pc' = "wait"
    /\ UNCHANGED <<stdinS, input, currProcesses, pipes, idx, kids, chan, status,
                   out, nexec, nfork, ret, faults>>

\* A wait that keeps the status of the first child only.
WaitFirstStatus ==
    /\ pc = "wait"
    /\ kids[idx].st = "zombie"
    /\ status' = IF idx = 0 THEN kids[idx].ws ELSE status
    /\ kids' = [kids EXCEPT ![idx].st = "reaped"]
    /\ IF idx + 1 < currProcesses.size
       THEN idx' = idx + 1 /\ pc' = "close"
       ELSE idx' = idx + 1 /\ pc' = "report"
    /\ UNCHANGED <<stdinS, input, currProcesses, pipes, pfd, chan, out, nexec, nfork,
                   ret, faults>>

\* A wait that returns at once, whether or not the child has terminated.
WaitNoHang ==
    /\ pc = "wait"
    /\ status' = kids[idx].ws
    /\ kids' = IF kids[idx].st = "zombie" THEN [kids EXCEPT ![idx].st = "reaped"]
               ELSE kids
    /\ IF idx + 1 < currProcesses.size
       THEN idx' = idx + 1 /\ pc' = "close"
       ELSE idx' = idx + 1 /\ pc' = "report"
    /\ UNCHANGED <<stdinS, input, currProcesses, pipes, pfd, chan, out, nexec, nfork,
                   ret, faults>>

\* waitOnProcesses, lines 191-195: waitpid(pids[idx]) returns once child idx
\* has terminated and stores its status.
Wait ==
    /\ pc = "wait"
    /\ kids[idx].st = "zombie"
    /\ status' = kids[idx].ws
    /\ kids' = [kids EXCEPT ![idx].st = "reaped"]
    /\ IF idx + 1 < currProcesses.size
       THEN idx' = idx + 1 /\ pc' = "close"
       ELSE idx' = idx + 1 /\ pc' = "report"
    /\ UNCHANGED <<stdinS, input, currProcesses, pipes, pfd, chan, out, nexec, nfork,
                   ret, faults>>

\* waitOnProcesses, line 196, execute, lines 125-127, and main, line 88: the
\* status is printed and the tables and the stage list are freed.
Report ==
    /\ pc = "report"
    /\ out' = Append(out, WEXITSTATUS(status))
    /\ currProcesses' = NoProcesses
    /\ pipes' = 0
    /\ idx' = 0
    /\ kids' = <<>>
    /\ chan' = <<>>
    /\ status' = -1
    /\ pc' = "prompt"
    /\ UNCHANGED <<stdinS, input, pfd, nexec, nfork, ret, faults>>

\* EXIT_FAILURE of stdlib.h.
EXIT_FAILURE == 1

\* main, lines 73-77: fgets returns NULL because the read failed (ferror):
\* the diagnostic is printed and main returns 1.
ReadError ==
    /\ pc = "prompt"
    /\ pc' = "readerr"
    /\ ret' = 1
    /\ UNCHANGED <<stdinS, input, currProcesses, execVars>>

\* fprintf(stderr, ...); exit(EXIT_FAILURE) in the shell after the system
\* call named call failed: the process ends, which closes its descriptors.
exitFailure(call) ==
    /\ Len(faults) < MaxFaults
    /\ faults' = Append(faults, call)
    /\ pc' = "failed"
    /\ ret' = EXIT_FAILURE
    /\ pfd' = {}
    /\ UNCHANGED <<stdinS, input, currProcesses, idx, kids, chan, status, out, nfork>>

\* makePipes, lines 237-240: pipe() fails.
PipeFails ==
    /\ pc = "execute"
    /\ exitFailure("pipe")
    /\ nexec' = nexec + 1
    /\ UNCHANGED pipes

\* A failed fork after which the loop goes on to the next stage.
ForkFailsContinue ==
    /\ pc = "fork"
    /\ Len(faults) < MaxFaults
    /\ faults' = Append(faults, "fork")
    /\ kids' = kids @@ (idx :> [st |-> "reaped", fds |-> {}, sin |-> TTY,
                                sout |-> TTY, prog |-> "none", hold |-> FALSE,
                                ws |-> -1])
    /\ IF idx + 1 < currProcesses.size
       THEN idx' = idx + 1 /\ pc' = "fork"
       ELSE idx' = 0 /\ pc' = "close"
    /\ UNCHANGED <<stdinS, input, currProcesses, pipes, pfd, chan, status, out, nexec,
                   nfork, ret>>

\* execute, lines 118-120: fork() fails.
ForkFails ==
    /\ pc = "fork"
    /\ exitFailure("fork")
    /\ UNCHANGED <<pipes, nexec>>

\* waitOnProcesses, lines 185-187: a close of pipe idx fails.
CloseFails ==
    /\ pc = "close"
    /\ exitFailure("close")
    /\ UNCHANGED <<pipes, nexec>>

\* waitOnProcesses, lines 191-193: waitpid fails.
WaitFails ==
    /\ pc = "wait"
    /\ exitFailure("waitpid")
    /\ UNCHANGED <<pipes, nexec>>

Next ==
    \/ ReadEof
    \/ ReadError
    \/ ReadLine
    \/ Execute
    \/ PipeFails
    \/ Fork
    \/ ForkFails
    \/ CloseFails
    \/ WaitFails
    \/ \E k \in 0 .. MAX_PROCESSES : RunChild(k)
    \/ \E k \in 0 .. MAX_PROCESSES : ProgRead(k)
    \/ \E k \in 0 .. MAX_PROCESSES : ProgWrite(k)
    \/ \E k \in 0 .. MAX_PROCESSES : ProgExit(k)
    \/ ClosePipe
    \/ Wait
    \/ Report

Spec == Init /\ [][Next]_vars

(***************************************************************************)
(* What the text of a line says, read off the characters themselves.       *)
(***************************************************************************)

\* The characters fgets stored: the content of the buffer before its NUL.
Line(buf) == CStr([k \in 1 .. BUFFER_SIZE |-> buf[k - 1]])

EndsInNewline(l) == l # <<>> /\ l[Len(l)] = NL

\* The line without its newline.
Body(l) == IF EndsInNewline(l) THEN SubSeq(l, 1, Len(l) - 1) ELSE l

\* The pieces of s between the occurrences of c.
RECURSIVE SplitOn(_, _)
SplitOn(s, c) ==
    IF \A i \in 1 .. Len(s) : s[i] # c THEN <<s>>
    ELSE LET i == CHOOSE i \in 1 .. Len(s) :
                      s[i] = c /\ \A j \in 1 .. i - 1 : s[j] # c
         IN  <<SubSeq(s, 1, i - 1)>> \o SplitOn(SubSeq(s, i + 1, Len(s)), c)

NonEmpty(w) == w # <<>>

\* The maximal runs of non-space characters of a segment, in order.
Words(seg) == SelectSeq(SplitOn(seg, " "), NonEmpty)

\* The pipe-separated segments of a line.
Segments(l) == SplitOn(Body(l), "|")

\* A line of pipe-separated segments that each hold an argument, ends in a
\* newline and stays inside the three ceilings.
WellFormed(l) ==
    /\ EndsInNewline(l)
    /\ Len(Segments(l)) <= MAX_PROCESSES
    /\ \A k \in 1 .. Len(Segments(l)) :
          /\ Words(Segments(l)[k]) # <<>>
          /\ Len(Words(Segments(l)[k])) < MAX_WORDS
          /\ \A j \in 1 .. Len(Words(Segments(l)[k])) :
                Len(Words(Segments(l)[k])[j]) < MAX_WORD_LENGTH

\* A line with nothing but spaces and tabs before its end.
OnlyWhitespace(l) == \A i \in 1 .. Len(Body(l)) : Body(l)[i] \in {" ", TAB}

Blocked(k) ==
    /\ kids[k].st = "running"
    /\ \/ /\ ~kids[k].hold
          /\ kids[k].prog \in {"cat", "head"}
          /\ kids[k].sin # TTY
          /\ chan[kids[k].sin[1]] = 0
          /\ Open(WR(kids[k].sin[1]))
       \/ /\ kids[k].hold
          /\ kids[k].sout # TTY
          /\ chan[kids[k].sout[1]] >= PipeCap
          /\ Open(RD(kids[k].sout[1]))

\* The shell is blocked in waitpid on a child that has not terminated.
ParentBlocked == pc = "wait" /\ kids[idx].st # "zombie"

\* The shell blocked in a wait while every live stage is blocked on a channel.
Hang == ParentBlocked /\ \A k \in DOMAIN kids : Live(k) => Blocked(k)

\* The program of stage k could not be executed and the child has exited.
ExecFailed(k) ==
    /\ k \in DOMAIN kids
    /\ kids[k].st \in {"zombie", "reaped"}
    /\ Program(NameOf(k)) = "none"

\* The shell is inside execute: it has called it and not returned from it.
Executing == pc \in {"fork", "close", "wait", "report", "failed"}

\* The first token of the first stage of a line, <<>> when it has none.
FirstToken(l) ==
    LET w == Words(Segments(l)[1]) IN IF w = <<>> THEN <<>> ELSE w[1]

(***************************************************************************)
(* C1.  For every pipeline the executor runs to completion, the status it   *)
(* reports is the exit status of the last stage, whatever the other stages  *)
(* exit with; one status is reported per executed pipeline.                 *)
(***************************************************************************)
C1_ReportsLastStage ==
    /\ [](Len(out) = nexec - (IF Executing THEN 1 ELSE 0))
    /\ [][IF pc = "report"
          THEN out' = Append(out, kids[currProcesses.size - 1].ws \div 256)
          ELSE out' = out]_vars

\* Three stages have been reaped, the first with another status than the last.
C1_Witness ==
    /\ pc = "report"
    /\ currProcesses.size = 3
    /\ \A k \in 0 .. 2 : kids[k].st = "reaped"
    /\ kids[0].ws # kids[2].ws

(***************************************************************************)
(* C2.  The shell does not hang: no reachable state has the parent blocked  *)
(* in a wait while every live stage is blocked on a channel read or write.  *)
(***************************************************************************)
C2_NoHang == ~Hang

(***************************************************************************)
(* C3.  In every state where the parent is blocked waiting on a child, the  *)
(* parent holds no open read end and no open write end of any channel.      *)
(***************************************************************************)
C3_ParentClosedBeforeWait == ParentBlocked => pfd = {}

(***************************************************************************)
(* C5.  When the program of a stage cannot be executed, that child exits    *)
(* 127, the other stages still run and are reaped, the parent neither       *)
(* aborts nor hangs, and the reported status is 127 exactly when the last   *)
(* stage failed or itself exited 127.                                       *)
(***************************************************************************)
C5_ExecFailureIsolated ==
    (\E k \in DOMAIN kids : ExecFailed(k)) =>
        /\ \A k \in DOMAIN kids : ExecFailed(k) => kids[k].ws = Exited(127)
        /\ pc # "abort"
        /\ ~Hang
        /\ pc = "report" =>
              /\ \A k \in DOMAIN kids : kids[k].st = "reaped"
              /\ DOMAIN kids = Stages
              /\ (WEXITSTATUS(status) = 127) <=>
                    \/ ExecFailed(currProcesses.size - 1)
                    \/ kids[currProcesses.size - 1].ws = Exited(127)

(***************************************************************************)
(* C6.  After any executed pipeline returns to the prompt loop, every       *)
(* channel end the executor opened is closed in the parent, after any       *)
(* sequence of executed pipelines.                                          *)
(***************************************************************************)
C6_NoParentLeak == pc \in {"prompt", "exit", "eof"} => pfd = {}

\* Back at the prompt after two executed pipelines.
C6_Witness == pc = "prompt" /\ Len(out) >= 2 /\ nfork >= 4 /\ pfd = {}

(***************************************************************************)
(* C7.  When the child of stage i replaces its program image, the only      *)
(* channel ends it holds open are the read end of channel i-1 (if i > 0)    *)
(* and the write end of channel i (if i < N-1).                             *)
(***************************************************************************)
C7_ChildHoldsOnlyItsEnds ==
    \A k \in DOMAIN kids :
        kids[k].st = "running" =>
            kids[k].fds \subseteq
                ({RD(k - 1) : j \in {j \in {0} : k > 0}}
                    \cup {WR(k) : j \in {j \in {0} : k < currProcesses.size - 1}})

(***************************************************************************)
(* C8.  When stage i executes its program, its standard input is the read   *)
(* end of channel i-1 if i > 0 and the shell's standard input if i = 0, its *)
(* standard output is the write end of channel i if i < N-1 and the shell's *)
(* standard output if i = N-1: stage i's output feeds stage i+1's input.    *)
(***************************************************************************)
C8_StagesWired ==
    \A k \in DOMAIN kids :
        kids[k].st = "running" =>
            /\ k = 0 => kids[k].sin = TTY
            /\ k > 0 => kids[k].sin = <<k - 1, 0>> /\ Holds(k, <<k - 1, 0>>)
            /\ k = currProcesses.size - 1 => kids[k].sout = TTY
            /\ k < currProcesses.size - 1 =>
                  kids[k].sout = <<k, 1>> /\ Holds(k, <<k, 1>>)
            /\ (k + 1 \in DOMAIN kids /\ kids[k + 1].st = "running") =>
                  kids[k].sout[1] = kids[k + 1].sin[1]

\* The three stages of a pipeline run their programs at the same time.
C8_Witness ==
    /\ currProcesses.size = 3
    /\ \A k \in 0 .. 2 : k \in DOMAIN kids /\ kids[k].st = "running"

(***************************************************************************)
(* C9.  A line (inside the ceilings) ends the session exactly when the      *)
(* first token of its first stage is the word exit, in that case without a  *)
(* process being spawned for it, whatever pipelines were executed before;   *)
(* nothing happens in the session after it.                                 *)
(***************************************************************************)
C9_ExitEndsSession ==
    [][/\ pc # "exit"
       /\ (stdinS' # stdinS /\ ~makeProcesses(input').over) =>
             /\ (pc' = "exit") <=> (FirstToken(Line(input')) = <<"e", "x", "i", "t">>)
             /\ pc' = "exit" => (nfork' = nfork /\ kids' = <<>> /\ nexec' = nexec)
      ]_vars

\* The session was ended by exit after two pipelines were executed.
C9_Witness ==
    /\ pc = "exit"
    /\ nexec >= 2
    /\ Len(out) = nexec
    /\ ~makeProcesses(input).over
    /\ FirstToken(Line(input)) = <<"e", "x", "i", "t">>

(***************************************************************************)
(* C10.  For every input line that is empty or holds only whitespace, the   *)
(* tokenizer yields an empty pipeline, the executor is not invoked, no      *)
(* process is spawned, no status is reported and the loop prompts again.    *)
(***************************************************************************)
C10_WhitespaceLineIsEmpty ==
    [][(stdinS' # stdinS /\ OnlyWhitespace(Line(input'))) =>
          /\ makeProcesses(input').size = 0
          /\ pc' = "prompt"
          /\ nexec' = nexec /\ nfork' = nfork /\ out' = out]_vars

\* A line that ends in a newline and stays inside the three ceilings.
InsideCeilings(l) ==
    /\ EndsInNewline(l)
    /\ Len(Segments(l)) <= MAX_PROCESSES
    /\ \A k \in 1 .. Len(Segments(l)) :
          /\ Len(Words(Segments(l)[k])) < MAX_WORDS
          /\ \A j \in 1 .. Len(Words(Segments(l)[k])) :
                Len(Words(Segments(l)[k])[j]) < MAX_WORD_LENGTH

\* A line with two pipe symbols in a row, or one at its beginning or end:
\* one of its pipe-separated segments holds no argument.
HasEmptySegment(l) ==
    /\ Len(Segments(l)) >= 2
    /\ \E k \in 1 .. Len(Segments(l)) : Words(Segments(l)[k]) = <<>>

(***************************************************************************)
(* C11.  For a line with consecutive pipe symbols, or one that begins or    *)
(* ends with a pipe symbol, the tokenizer yields a stage with zero          *)
(* arguments at that position and keeps every other stage of the line, in   *)
(* order: the pipeline has one stage per pipe-separated segment.            *)
(***************************************************************************)
C11_EmptyStageKept ==
    (pc = "parsed" /\ InsideCeilings(Line(input)) /\ HasEmptySegment(Line(input))) =>
        /\ currProcesses.size = Len(Segments(Line(input)))
        /\ currProcesses.args =
              [k \in 1 .. Len(Segments(Line(input))) |-> Words(Segments(Line(input))[k])]

\* The system call that failed last, "none" when none has.
LastFault == IF faults = <<>> THEN "none" ELSE faults[Len(faults)]

(***************************************************************************)
(* C12.  The session's own exit code is 0 when the input reaches its end    *)
(* without a read error and 1 when reading the input fails; the session     *)
(* has no exit code while it prompts.                                       *)
(***************************************************************************)
C12_SessionExitCode ==
    /\ pc = "eof" => ret = 0
    /\ pc = "readerr" => ret = 1
    /\ pc = "prompt" => ret = -1

(***************************************************************************)
(* C13.  When channel creation, a spawn, a close in the parent or a wait    *)
(* fails during a pipeline's execution, the shell terminates with a failure *)
(* status at that point: no further stage is spawned, no pipeline status is *)
(* reported and the shell does not return to the prompt.                    *)
(***************************************************************************)
C13_ParentFaultAborts ==
    /\ [][(faults' # faults /\ LastFault' \in {"pipe", "fork", "close", "waitpid"}) =>
             /\ pc' = "failed"
             /\ ret' \notin {-1, 0}
             /\ nfork' = nfork
             /\ out' = out]_vars
    /\ [][pc = "failed" =>
             /\ pc' = "failed"
             /\ ret' = ret
             /\ nfork' = nfork
             /\ out' = out
             /\ stdinS' = stdinS]_vars

\* The second fork of a pipeline failed after another pipeline was executed,
\* and the child already spawned has gone on to terminate.
C13_Witness ==
    /\ pc = "failed"
    /\ LastFault = "fork"
    /\ Len(out) >= 1
    /\ idx = 1
    /\ kids[0].st = "zombie"

(***************************************************************************)
(* C14.  After a descriptor duplication or a descriptor close has failed    *)
(* while a stage was being wired, the shell reports no pipeline status and  *)
(* does not prompt again.                                                   *)
(***************************************************************************)
C14_WiringFaultFatal ==
    [][(LastFault \in {"close in child", "dup2 in child"}) =>
          (out' = out /\ pc' # "prompt")]_vars

(***************************************************************************)
(* C15.  A line over a ceiling (argument length, arguments per stage or     *)
(* stages per pipeline), each of whose segments holds an argument, is       *)
(* discarded: the tokenizer stores nothing beyond the capacity of an array  *)
(* and hands no stage of the line on for execution.                         *)
(***************************************************************************)
C15_OverCeilingRejected ==
    (/\ pc = "parsed"
     /\ EndsInNewline(Line(input))
     /\ ~HasEmptySegment(Line(input))
     /\ ~InsideCeilings(Line(input))) =>
        /\ ~currProcesses.over
        /\ currProcesses.size = 0

(***************************************************************************)
(* C16.  While an N-stage pipeline is executed, exactly N-1 channels are    *)
(* allocated (none for a single stage).                                     *)
(***************************************************************************)
C16_ChannelCount ==
    pc \in {"fork", "close", "wait", "report"} => pipes = currProcesses.size - 1

\* Child k has been waited on.
Reaped(k) == k \in DOMAIN kids /\ kids[k].st = "reaped"

(***************************************************************************)
(* C17.  Stages are spawned in pipeline order, stage 0 first, one process   *)
(* per stage, and the parent waits on no child before all N are spawned.    *)
(***************************************************************************)
C17_SpawnOrder ==
    /\ [][nfork' # nfork =>
             /\ nfork' = nfork + 1
             /\ DOMAIN kids = 0 .. Cardinality(DOMAIN kids) - 1
             /\ DOMAIN kids' = 0 .. Cardinality(DOMAIN kids)
             /\ Cardinality(DOMAIN kids') <= currProcesses.size
             /\ \A k \in DOMAIN kids : ~Reaped(k)]_vars
    /\ [](pc \in {"close", "wait", "report"} => DOMAIN kids = Stages)
    /\ []((\E k \in DOMAIN kids : Reaped(k)) => DOMAIN kids = Stages)

\* The three stages of a pipeline are spawned and the parent has not yet
\* closed a pipe or waited.
C17_Witness ==
    /\ pc = "close"
    /\ idx = 0
    /\ currProcesses.size = 3
    /\ DOMAIN kids = 0 .. 2
    /\ kids[2].st = "forked"

(***************************************************************************)
(* C18.  Every process spawned for a pipeline is waited on exactly once, in *)
(* spawn order, after it has terminated, and when the executor returns to   *)
(* the prompt loop every spawned process of the pipeline has been reaped.   *)
(***************************************************************************)
C18_ReapedOnceInOrder ==
    /\ [][\A k \in DOMAIN kids :
             /\ (~Reaped(k) /\ Reaped(k)') =>
                   /\ kids[k].st = "zombie"
                   /\ \A j \in DOMAIN kids : j < k => Reaped(j)
                   /\ \A j \in DOMAIN kids : j > k => ~Reaped(j)'
             /\ (Reaped(k) /\ kids' # <<>>) => Reaped(k)']_vars
    /\ [][(Executing /\ pc' = "prompt") =>
             /\ DOMAIN kids = Stages
             /\ \A k \in Stages : Reaped(k)
             /\ kids' = <<>>]_vars

\* The two stages of a second pipeline have been waited on.
C18_Witness ==
    /\ pc = "report"
    /\ Len(out) >= 1
    /\ currProcesses.size = 2
    /\ Reaped(0) /\ Reaped(1)

\* Child k has terminated.
Terminated(k) == k \in DOMAIN kids /\ kids[k].st \in {"zombie", "reaped"}

(***************************************************************************)
(* C19.  While the parent waits on a child and every child has wired its    *)
(* descriptors, a stage j that has terminated leaves no write end of        *)
(* channel j open in any process: stage j+1 reads end-of-stream from it as  *)
(* soon as the buffered data is drained, whatever stage the parent is       *)
(* waiting on.                                                              *)
(***************************************************************************)
C19_EndOfStreamNotDelayed ==
    (pc = "wait" /\ \A k \in DOMAIN kids : kids[k].st # "forked") =>
        \A j \in DOMAIN kids :
            (Terminated(j) /\ j + 1 \in DOMAIN kids /\ kids[j + 1].st = "running") =>
                ~Open(WR(j))

(***************************************************************************)
(* C20.  The pipeline the tokenizer produces for a line is a function of    *)
(* the characters read for that line alone: it is the one produced from the *)
(* same characters whatever the rest of the buffer holds from the lines     *)
(* read before, also for a last line that ends without a newline.           *)
(***************************************************************************)
C20_LineAlone ==
    [][stdinS' # stdinS =>
          \A t \in Tails(BUFFER_SIZE - 1 - Len(Line(input'))) :
              /\ makeProcesses(fgets(Line(input'), t)).args = makeProcesses(input').args
              /\ makeProcesses(fgets(Line(input'), t)).size = makeProcesses(input').size]_vars

====
